---------------------------- MODULE Spec2Model ----------------------------
(***************************************************************************)
(* Model of split_json.py: the streaming partition engine (split_json and  *)
(* its closure write_part), the Markdown normaliser (obj_to_md,            *)
(* _extract_text, _normalize_text), the compact JSON serialisation the     *)
(* engine measures and writes, and the report-header rewrite of part 1.    *)
(*                                                                         *)
(* Text is a sequence of characters, each character a string.  A character *)
(* of the Cyrillic report line is written as a token "cyr_x"; Utf8Len      *)
(* gives every character its width in bytes, so that sizes are the byte    *)
(* sizes the code measures with len(s.encode("utf-8")).                    *)
(***************************************************************************)
EXTENDS Integers, Sequences, FiniteSets, TLC

(***************************************************************************)
(* Bounds of the model.                                                    *)
(***************************************************************************)
\* longest record stream the parser yields
MaxRecords == 4
\* largest byte limit max_size_bytes tried
MaxBytes == 32
\* largest count limit max_objects_per_file tried
MaxCount == 2
\* max_file_size_mb is a float: the model counts it in fractions of a byte,
\* MbResolution of them to the byte, so that int() has something to truncate
MbResolution == 2

\* Python's None for an optional value; a present value n is Some(n)
None == <<>>
Some(n) == <<n>>
Val(x) == x[1]

(***************************************************************************)
(* Text helpers: the str methods and file iteration the code relies on.    *)
(***************************************************************************)
\* the characters Python's \s and str.strip() treat as whitespace
Whitespace == {" ", "\n", "\t", "\r"}

\* the characters that take two bytes in UTF-8 (the letters of the report line)
TwoByteChars ==
    {"cyr_O", "cyr_t", "cyr_ch", "cyr_yo", "cyr_V", "cyr_s", "cyr_e", "cyr_g",
     "cyr_o", "cyr_b", "cyr_shch", "cyr_n", "cyr_i", "cyr_j"}

Utf8Len(c) == IF c \in TwoByteChars THEN 2 ELSE 1

RECURSIVE ByteLen(_)
\* len(s.encode("utf-8"))
ByteLen(s) == IF s = <<>> THEN 0 ELSE Utf8Len(Head(s)) + ByteLen(Tail(s))

RECURSIVE LStrip(_)
LStrip(s) ==
    IF s = <<>> THEN <<>>
    ELSE IF Head(s) \in Whitespace THEN LStrip(Tail(s)) ELSE s

RECURSIVE RStrip(_)
\* str.rstrip()
RStrip(s) ==
    IF s = <<>> THEN <<>>
    ELSE IF s[Len(s)] \in Whitespace THEN RStrip(SubSeq(s, 1, Len(s) - 1)) ELSE s

\* str.strip()
Strip(s) == RStrip(LStrip(s))

RECURSIVE StartsWith(_, _)
\* s.startswith(p)
StartsWith(s, p) ==
    IF p = <<>> THEN TRUE
    ELSE IF s = <<>> THEN FALSE
    ELSE Head(s) = Head(p) /\ StartsWith(Tail(s), Tail(p))

RECURSIVE Join(_, _)
\* sep.join(items)
Join(items, sep) ==
    IF items = <<>> THEN <<>>
    ELSE IF Len(items) = 1 THEN items[1]
    ELSE items[1] \o sep \o Join(Tail(items), sep)

RECURSIVE Flatten(_)
\* the concatenation of a sequence of sequences
Flatten(ss) == IF ss = <<>> THEN <<>> ELSE Head(ss) \o Flatten(Tail(ss))

RECURSIVE UniversalNewlines(_)
\* text-mode reading: "\r\n" and a lone "\r" are read as "\n"
UniversalNewlines(s) ==
    IF s = <<>> THEN <<>>
    ELSE IF Head(s) = "\r"
         THEN IF Len(s) >= 2 /\ s[2] = "\n"
              THEN <<"\n">> \o UniversalNewlines(SubSeq(s, 3, Len(s)))
              ELSE <<"\n">> \o UniversalNewlines(Tail(s))
         ELSE <<Head(s)>> \o UniversalNewlines(Tail(s))

RECURSIVE SplitKeepEnds(_, _)
\* the lines of s, each with its "\n" (the last one may lack it); cur is
\* the line being collected
SplitKeepEnds(s, cur) ==
    IF s = <<>> THEN (IF cur = <<>> THEN <<>> ELSE <<cur>>)
    ELSE IF Head(s) = "\n"
         THEN <<Append(cur, "\n")>> \o SplitKeepEnds(Tail(s), <<>>)
         ELSE SplitKeepEnds(Tail(s), Append(cur, Head(s)))

\* what "for line in fin" yields for a file opened in text mode
FileLines(content) == SplitKeepEnds(UniversalNewlines(content), <<>>)

RECURSIVE CollapseWs(_, _)
\* _WS_RE.sub(" ", s): every run of whitespace becomes one space; inRun says
\* that the previous character was whitespace
CollapseWs(s, inRun) ==
    IF s = <<>> THEN <<>>
    ELSE IF Head(s) \in Whitespace
         THEN (IF inRun THEN <<>> ELSE <<" ">>) \o CollapseWs(Tail(s), TRUE)
         ELSE <<Head(s)>> \o CollapseWs(Tail(s), FALSE)

\* a normalization that collapses the runs and keeps the ends
NormalizeTextNoStrip(s) == IF s = <<>> THEN <<>> ELSE CollapseWs(s, FALSE)

\* _normalize_text
NormalizeText(s) == IF s = <<>> THEN <<>> ELSE Strip(CollapseWs(s, FALSE))


(***************************************************************************)
(* Records.  A JSON value is tagged: a string (its characters), null, a    *)
(* list of values, or an object (a dict: its key/value pairs in document   *)
(* order, each key a sequence of characters).                              *)
(***************************************************************************)
VStr(s) == [t |-> "str", v |-> s]
VNull == [t |-> "null", v |-> <<>>]
VList(l) == [t |-> "list", v |-> l]
VDict(kvs) == [t |-> "dict", v |-> kvs]

K_date == <<"d", "a", "t", "e">>
K_from == <<"f", "r", "o", "m">>
K_actor == <<"a", "c", "t", "o", "r">>
K_text == <<"t", "e", "x", "t">>
K_text_entities == K_text \o <<"_", "e", "n", "t", "i", "t", "i", "e", "s">>

\* dict.get(key, default)
GetOr(obj, key, default) ==
    IF \E i \in 1..Len(obj.v) : obj.v[i][1] = key
    THEN obj.v[CHOOSE i \in 1..Len(obj.v) : obj.v[i][1] = key][2]
    ELSE default

\* dict.get(key)
Get(obj, key) == GetOr(obj, key, VNull)

\* bool(v)
Truthy(v) == v.v /= <<>>

\* a or b
Or(a, b) == IF Truthy(a) THEN a ELSE b

\* str(v), and what an f-string puts for {v}: defined for strings and None
PyStr(v) ==
    CASE v.t = "str" -> v.v
      [] v.t = "null" -> <<"N", "o", "n", "e">>

\* str.replace(old, new) for single characters
Replace(s, old, new) == [i \in 1..Len(s) |-> IF s[i] = old THEN new ELSE s[i]]

\* s[:n]
Take(s, n) == SubSeq(s, 1, IF Len(s) < n THEN Len(s) ELSE n)

\* c in s
Contains(s, c) == \E i \in 1..Len(s) : s[i] = c

\* the part of an item _extract_text's list branch collects: a string, a
\* dict's "text" (str() of it), nothing for any other item
ExtractItem(item) ==
    CASE item.t = "str" -> <<item.v>>
      [] item.t = "dict" -> <<PyStr(GetOr(item, K_text, VStr(<<>>)))>>
      [] OTHER -> <<>>

\* _extract_text
ExtractText(v) ==
    CASE v.t = "null" -> <<>>
      [] v.t = "str" -> v.v
      [] v.t = "dict" -> PyStr(GetOr(v, K_text, VStr(<<>>)))
      [] v.t = "list" -> Flatten(Flatten([i \in 1..Len(v.v) |-> ExtractItem(v.v[i])]))

\* the length of the date slice obj_to_md keeps: YYYY-MM-DD HH:MM
DateLen == 16

\* the date obj_to_md prints
MdDate(obj) ==
    LET date == GetOr(obj, K_date, VStr(<<>>))
    IN  IF Truthy(date) /\ Contains(PyStr(date), "T")
        THEN Take(Replace(PyStr(date), "T", " "), DateLen)
        ELSE PyStr(date)

\* the author obj_to_md prints
MdAuthor(obj) == PyStr(Or(Or(Get(obj, K_from), Get(obj, K_actor)), VStr(<<>>)))

\* the normalized text of obj_to_md, before the heading escape
MdText(obj) ==
    LET text == Or(Get(obj, K_text), VStr(<<>>))
        ents == Get(obj, K_text_entities)
    IN  NormalizeText(
            IF ~Truthy(text) /\ Truthy(ents)
            THEN Join([i \in 1..Len(ents.v) |-> ExtractText(ents.v[i])], <<" ">>)
            ELSE ExtractText(text))

\* obj_to_md
obj_to_md(obj) ==
    LET text == MdText(obj)
        head == <<"#", "#", "#", " ">> \o MdDate(obj) \o <<" ", "|", " ">> \o MdAuthor(obj)
        lines == IF text /= <<>>
                 THEN <<head, IF StartsWith(text, <<"#">>) THEN <<"\\">> \o text ELSE text>>
                 ELSE <<head>>
    IN  Join(lines, <<"\n">>)

(***************************************************************************)
(* json.dumps(v, ensure_ascii=False, separators=(",", ":"))                *)
(***************************************************************************)
\* one character inside a JSON string
JsonChar(c) ==
    CASE c = "\"" -> <<"\\", "\"">>
      [] c = "\\" -> <<"\\", "\\">>
      [] c = "\n" -> <<"\\", "n">>
      [] c = "\r" -> <<"\\", "r">>
      [] c = "\t" -> <<"\\", "t">>
      [] OTHER -> <<c>>

JsonString(s) == <<"\"">> \o Flatten([i \in 1..Len(s) |-> JsonChar(s[i])]) \o <<"\"">>

RECURSIVE JsonDumps(_)
JsonDumps(v) ==
    CASE v.t = "str" -> JsonString(v.v)
      [] v.t = "null" -> <<"n", "u", "l", "l">>
      [] v.t = "list" ->
            <<"[">> \o Join([i \in 1..Len(v.v) |-> JsonDumps(v.v[i])], <<",">>) \o <<"]">>
      [] v.t = "dict" ->
            <<"{">>
            \o Join([i \in 1..Len(v.v) |->
                        JsonString(v.v[i][1]) \o <<":">> \o JsonDumps(v.v[i][2])], <<",">>)
            \o <<"}">>


(***************************************************************************)
(* The partition engine: split_json.                                       *)
(***************************************************************************)
VARIABLES
    pc,                   \* where the call is: idle, streaming, finalizing, copying, done,
                          \*   config_error
    output_format,        \* argument: "md" or "json"
    output_prefix,        \* argument: the prefix of the names of the parts
    max_file_size_mb,     \* argument: None or Some(k), k fractions of a byte
    max_objects_per_file, \* argument: None or Some(n)
    dir_exists,           \* storage: output_dir exists
    disk,                 \* storage: path -> content of the files under output_dir
    input_open,           \* the input file is open
    consumed,             \* the records the parser has yielded so far
    created_files,        \* the output catalog
    current_objects,      \* JSON buffer
    current_md_blocks,    \* Markdown buffer
    current_size,         \* running size of the buffer
    part_index,           \* index of the next part
    total_read,           \* records counted
    fin_lines,            \* header rewrite: lines of part 1 not yet copied
    result,               \* the returned list, <<>> until returned is TRUE
    returned,             \* split_json has returned
    parts,                \* history: the units of every part write_part wrote
    other                 \* another call of split_json on the same storage: its locals

vars ==
    <<pc, output_format, output_prefix, max_file_size_mb, max_objects_per_file,
      dir_exists, disk, input_open, consumed, created_files, current_objects,
      current_md_blocks, current_size, part_index, total_read, fin_lines, result,
      returned, parts, other>>

\* the records the parser may yield: one with no field, one with a text
\* that starts with "#" and holds a newline, one with an author only
RecEmpty == VDict(<<>>)
RecText == VDict(<< <<K_text, VStr(<<"#", "\n", "c">>)>> >>)
RecFrom == VDict(<< <<K_from, VStr(<<"a">>)>> >>)
StreamRecords == {RecEmpty, RecText, RecFrom}

\* default of the argument output_dir
output_dir == <<"d", "i", "s", "t">>

ext == IF output_format = "md" THEN <<".", "m", "d">> ELSE <<".", "j", "s", "o", "n">>

\* int(max_file_size_mb * 1024 * 1024) if max_file_size_mb else None
max_size_bytes ==
    IF max_file_size_mb /= None /\ Val(max_file_size_mb) /= 0
    THEN Some(Val(max_file_size_mb) \div MbResolution)
    ELSE None

\* "max_size_bytes and ...": the byte limit is neither None nor 0
ByteLimitOn == max_size_bytes /= None /\ Val(max_size_bytes) /= 0

\* "max_objects_per_file and ...": the count limit is neither None nor 0
CountLimitOn == max_objects_per_file /= None /\ Val(max_objects_per_file) /= 0

sep == <<"\n", "-", "-", "-", "\n">>
sep_len == ByteLen(sep)

\* str(n) of a number below 10
DigitChar(d) == <<"0", "1", "2", "3", "4", "5", "6", "7", "8", "9">>[d + 1]

RECURSIVE Digits(_)
\* str(n), the digits of n
Digits(n) == IF n < 10 THEN <<DigitChar(n)>> ELSE Append(Digits(n \div 10), DigitChar(n % 10))

\* the name of a part numbered from 0
OutNameZeroBased(idx) ==
    output_dir \o <<"/">> \o output_prefix \o <<"_">> \o Digits(idx - 1) \o ext

\* os.path.join(output_dir, f"{output_prefix}_{part_index}{ext}"), under the
\* working directory
OutName(idx) == output_dir \o <<"/">> \o output_prefix \o <<"_">> \o Digits(idx) \o ext

\* first_path + ".tmp"
TmpPath(path) == path \o <<".", "t", "m", "p">>

\* a file opened for appending: content goes after what the file holds
WriteFileAppend(d, path, content) ==
    (path :> (IF path \in DOMAIN d THEN d[path] ELSE <<>>) \o content) @@ d

\* open(path, "w") ... write(content): the file holds content and nothing else
WriteFile(d, path, content) == (path :> content) @@ d

\* the nonlocal variables of write_part, with the storage and the history
Engine ==
    [current_objects |-> current_objects, current_md_blocks |-> current_md_blocks,
     current_size |-> current_size, part_index |-> part_index,
     created_files |-> created_files, disk |-> disk, parts |-> parts]

\* n = len(current_md_blocks) if output_format == "md" else len(current_objects)
NCurrent(e) ==
    IF output_format = "md" THEN Len(e.current_md_blocks) ELSE Len(e.current_objects)

\* what write_part writes to the part's file
PartContent(e) ==
    IF output_format = "md"
    THEN Join(e.current_md_blocks, sep)
    ELSE JsonDumps(VList(e.current_objects))

\* the rendered units of the buffer
BufferUnits(e) ==
    IF output_format = "md"
    THEN e.current_md_blocks
    ELSE [i \in 1..Len(e.current_objects) |-> JsonDumps(e.current_objects[i])]

\* a write_part that forgets part_index += 1
WritePartSameIndex(e) ==
    IF NCurrent(e) = 0 THEN e
    ELSE [e EXCEPT
            !.disk = WriteFile(e.disk, OutName(e.part_index), PartContent(e)),
            !.created_files = Append(e.created_files, OutName(e.part_index)),
            !.parts = Append(e.parts, BufferUnits(e)),
            !.current_objects = <<>>,
            !.current_md_blocks = <<>>,
            !.current_size = 0]

\* write_part
WritePart(e) ==
    IF NCurrent(e) = 0 THEN e
    ELSE [e EXCEPT
            !.disk = WriteFile(e.disk, OutName(e.part_index), PartContent(e)),
            !.created_files = Append(e.created_files, OutName(e.part_index)),
            !.parts = Append(e.parts, BufferUnits(e)),
            !.part_index = e.part_index + 1,
            !.current_objects = <<>>,
            !.current_md_blocks = <<>>,
            !.current_size = 0]

\* an obj_size that forgets the separator
ObjSizeNoSep(e, obj) ==
    IF output_format = "md" THEN ByteLen(obj_to_md(obj)) ELSE ByteLen(JsonDumps(obj))

\* obj_size of the loop body, computed before any flush
ObjSize(e, obj) ==
    IF output_format = "md"
    THEN ByteLen(obj_to_md(obj)) + (IF e.current_md_blocks /= <<>> THEN sep_len ELSE 0)
    ELSE ByteLen(JsonDumps(obj))

\* first check: the buffer already reached the byte limit
AfterSizeReached(e) ==
    IF ByteLimitOn /\ e.current_size >= Val(max_size_bytes) THEN WritePart(e) ELSE e

\* a second check that looks at the buffer and not at the object
AfterWouldNotFitIgnoringObj(e, obj_size) ==
    IF ByteLimitOn /\ NCurrent(e) /= 0 /\ e.current_size > Val(max_size_bytes)
    THEN WritePart(e) ELSE e

\* second check: the object would not fit
AfterWouldNotFit(e, obj_size) ==
    IF ByteLimitOn /\ NCurrent(e) /= 0 /\ e.current_size + obj_size > Val(max_size_bytes)
    THEN WritePart(e) ELSE e

\* a third check that is off by one
AfterCountReachedOffByOne(e) ==
    IF CountLimitOn /\ NCurrent(e) > Val(max_objects_per_file) THEN WritePart(e) ELSE e

\* third check: the count limit
AfterCountReached(e) ==
    IF CountLimitOn /\ NCurrent(e) >= Val(max_objects_per_file) THEN WritePart(e) ELSE e

\* the append that ends the loop body
AppendObj(e, obj, obj_size) ==
    [e EXCEPT
        !.current_md_blocks =
            IF output_format = "md" THEN Append(@, obj_to_md(obj)) ELSE @,
        !.current_objects = IF output_format = "md" THEN @ ELSE Append(@, obj),
        !.current_size = @ + obj_size]

\* a loop body that checks the count limit after the append
LoopBodyCountAfterAppend(e, obj) ==
    LET obj_size == ObjSize(e, obj)
    IN  AfterCountReached(
            AppendObj(AfterWouldNotFit(AfterSizeReached(e), obj_size), obj, obj_size))

\* one pass of the loop body over obj
LoopBody(e, obj) ==
    LET obj_size == ObjSize(e, obj)
    IN  AppendObj(
            AfterCountReached(AfterWouldNotFit(AfterSizeReached(e), obj_size)),
            obj, obj_size)

\* the engine variables take the values of e
SetEngine(e) ==
    /\ current_objects' = e.current_objects
    /\ current_md_blocks' = e.current_md_blocks
    /\ current_size' = e.current_size
    /\ part_index' = e.part_index
    /\ created_files' = e.created_files
    /\ disk' = e.disk
    /\ parts' = e.parts

config == <<output_format, output_prefix, max_file_size_mb, max_objects_per_file>>

\* the locals of the call, as another call on the same storage sees them: not
\* at all; disk is filled only by Finished
Suspended ==
    [pc |-> pc, output_prefix |-> output_prefix, input_open |-> input_open,
     consumed |-> consumed, created_files |-> created_files,
     current_objects |-> current_objects, current_md_blocks |-> current_md_blocks,
     current_size |-> current_size, part_index |-> part_index,
     total_read |-> total_read, fin_lines |-> fin_lines, result |-> result,
     returned |-> returned, parts |-> parts, disk |-> <<>>]

\* no other call
NoInvocation ==
    [pc |-> "absent", output_prefix |-> <<>>, input_open |-> FALSE, consumed |-> <<>>,
     created_files |-> <<>>, current_objects |-> <<>>, current_md_blocks |-> <<>>,
     current_size |-> 0, part_index |-> 1, total_read |-> 0, fin_lines |-> <<>>,
     result |-> <<>>, returned |-> FALSE, parts |-> <<>>, disk |-> <<>>]

SizeArgs ==
    {None} \cup {Some(k) : k \in {0, 1} \cup {MbResolution * b : b \in 1..MaxBytes}}
CountArgs == {None} \cup {Some(n) : n \in 0..MaxCount}

Init ==
    /\ pc = "idle"
    /\ output_format \in {"md", "json"}
    /\ output_prefix = <<"p", "a", "r", "t">>
    /\ max_file_size_mb \in SizeArgs
    /\ max_objects_per_file \in CountArgs
    /\ dir_exists \in BOOLEAN
    /\ disk = <<>>
    /\ input_open = FALSE
    /\ consumed = <<>>
    /\ created_files = <<>>
    /\ current_objects = <<>>
    /\ current_md_blocks = <<>>
    /\ current_size = 0
    /\ part_index = 1
    /\ total_read = 0
    /\ fin_lines = <<>>
    /\ result = <<>>
    /\ returned = FALSE
    /\ parts = <<>>
    /\ other = NoInvocation

\* os.makedirs, then the check of the limits: ValueError when both are None
StartNoLimit ==
    /\ pc = "idle"
    /\ max_file_size_mb = None /\ max_objects_per_file = None
    /\ dir_exists' = TRUE
    /\ pc' = "config_error"
    /\ UNCHANGED <<config, other, disk, input_open, consumed, created_files, current_objects,
                   current_md_blocks, current_size, part_index, total_read, fin_lines,
                   result, returned, parts>>

\* os.makedirs, the limits are accepted, the locals are set, the input is opened
Start ==
    /\ pc = "idle"
    /\ ~(max_file_size_mb = None /\ max_objects_per_file = None)
    /\ dir_exists' = TRUE
    /\ input_open' = TRUE
    /\ pc' = "streaming"
    /\ UNCHANGED <<config, other, disk, consumed, created_files, current_objects,
                   current_md_blocks, current_size, part_index, total_read, fin_lines,
                   result, returned, parts>>

\* a loop body whose counter is the number of units in the buffer
ProcessRecordCountsBuffer(obj) ==
    /\ pc = "streaming"
    /\ Len(consumed) < MaxRecords
    /\ consumed' = Append(consumed, obj)
    /\ SetEngine(LoopBody(Engine, obj))
    /\ total_read' = NCurrent(LoopBody(Engine, obj))
    /\ UNCHANGED <<pc, config, other, dir_exists, input_open, fin_lines, result, returned>>

\* the parser yields obj and the loop body runs
ProcessRecord(obj) ==
    /\ pc = "streaming"
    /\ Len(consumed) < MaxRecords
    /\ consumed' = Append(consumed, obj)
    /\ SetEngine(LoopBody(Engine, obj))
    /\ total_read' = total_read + 1
    /\ UNCHANGED <<pc, config, other, dir_exists, input_open, fin_lines, result, returned>>

\* the report taken as due in Markdown mode whether or not a part exists
ReportDueWithoutParts(e) == output_format = "md"

\* the report taken as due in either format
ReportDueAnyFormat(e) == e.created_files /= <<>>

\* the report is due: Markdown, and at least one part
ReportDue(e) == output_format = "md" /\ e.created_files /= <<>>

\* an end of stream that forgets the remainder
EndOfStreamNoFlush ==
    /\ pc = "streaming"
    /\ IF ReportDue(Engine)
       THEN pc' = "finalizing" /\ UNCHANGED <<result, returned>>
       ELSE pc' = "done" /\ result' = created_files /\ returned' = TRUE
    /\ input_open' = FALSE
    /\ UNCHANGED <<config, other, dir_exists, disk, consumed, created_files, current_objects,
                   current_md_blocks, current_size, part_index, total_read, fin_lines,
                   parts>>

\* the parser is exhausted: the input is closed and the remainder flushed;
\* without a report to write split_json returns
EndOfStream ==
    /\ pc = "streaming"
    /\ LET e == IF current_objects /= <<>> \/ current_md_blocks /= <<>>
                THEN WritePart(Engine) ELSE Engine
       IN  /\ SetEngine(e)
           /\ IF ReportDue(e)
              THEN pc' = "finalizing" /\ UNCHANGED <<result, returned>>
              ELSE pc' = "done" /\ result' = e.created_files /\ returned' = TRUE
    /\ input_open' = FALSE
    /\ UNCHANGED <<config, other, dir_exists, consumed, total_read, fin_lines>>


(***************************************************************************)
(* The report header of the first Markdown part.                           *)
(***************************************************************************)
\* three digits of a group after the first
Group3(n) == <<DigitChar(n \div 100), DigitChar((n \div 10) % 10), DigitChar(n % 10)>>

RECURSIVE FormatThousands(_)
\* f"{n:,}"
FormatThousands(n) ==
    IF n < 1000 THEN Digits(n)
    ELSE FormatThousands(n \div 1000) \o <<",">> \o Group3(n % 1000)

\* "### Отчёт | Всего сообщений: "
ReportPrefix ==
    <<"#", "#", "#", " ", "cyr_O", "cyr_t", "cyr_ch", "cyr_yo", "cyr_t", " ", "|", " ",
      "cyr_V", "cyr_s", "cyr_e", "cyr_g", "cyr_o", " ",
      "cyr_s", "cyr_o", "cyr_o", "cyr_b", "cyr_shch", "cyr_e", "cyr_n", "cyr_i", "cyr_j",
      ":", " ">>

\* a report line that counts the first part only
ReportLineOfFirstPart(n) == ReportPrefix \o FormatThousands(Len(parts[1]))

\* report_line
ReportLine(n) == ReportPrefix \o FormatThousands(n)

\* first_path = created_files[0]
first_path == created_files[1]

\* a rewrite that writes over the first part itself
tmp_path_InPlace == first_path

\* one temporary name for every call that writes to output_dir
tmp_path_SharedName == output_dir \o <<"/">> \o <<".", "t", "m", "p">>

\* tmp_path = first_path + ".tmp"
tmp_path == TmpPath(first_path)

\* the rewrite opens the first part and the temporary file, and writes the
\* report line and the separator
RewriteOpen ==
    /\ pc = "finalizing"
    /\ first_path \in DOMAIN disk
    /\ fin_lines' = FileLines(disk[first_path])
    /\ disk' = WriteFile(disk, tmp_path,
                         ReportLine(total_read) \o <<"\n", "-", "-", "-", "\n">>)
    /\ pc' = "copying"
    /\ UNCHANGED <<config, other, dir_exists, input_open, consumed, created_files,
                   current_objects, current_md_blocks, current_size, part_index,
                   total_read, result, returned, parts>>

\* one line of the first part is copied, unless it is blank
RewriteLine ==
    /\ pc = "copying"
    /\ fin_lines /= <<>>
    /\ LET line == Head(fin_lines)
       IN  disk' = IF Strip(line) = <<>> THEN disk
                   ELSE [disk EXCEPT ![tmp_path] = @ \o RStrip(line) \o <<"\n">>]
    /\ fin_lines' = Tail(fin_lines)
    /\ UNCHANGED <<pc, config, other, dir_exists, input_open, consumed, created_files,
                   current_objects, current_md_blocks, current_size, part_index,
                   total_read, result, returned, parts>>

\* os.replace(tmp_path, first_path), and split_json returns
RewriteReplace ==
    /\ pc = "copying"
    /\ fin_lines = <<>>
    /\ disk' = [p \in DOMAIN disk \ {tmp_path} |->
                    IF p = first_path THEN disk[tmp_path] ELSE disk[p]]
    /\ pc' = "done"
    /\ result' = created_files
    /\ returned' = TRUE
    /\ UNCHANGED <<config, other, dir_exists, input_open, consumed, created_files,
                   current_objects, current_md_blocks, current_size, part_index,
                   total_read, fin_lines, parts>>

Next ==
    \/ StartNoLimit
    \/ Start
    \/ \E obj \in StreamRecords : ProcessRecord(obj)
    \/ EndOfStream
    \/ RewriteOpen
    \/ RewriteLine
    \/ RewriteReplace

Spec == Init /\ [][Next]_vars


(***************************************************************************)
(* Failures.  split_json catches nothing: an exception of the parser or of *)
(* the storage ends the call where it is raised; a crash ends the process  *)
(* between two steps.                                                      *)
(***************************************************************************)
\* what a failed open(out_name, "w") ... write leaves on the storage: the
\* storage as it was (the open failed), or the file with the first n
\* characters of the content
PartialWrites(e) ==
    {e.disk} \cup
    {WriteFile(e.disk, OutName(e.part_index), SubSeq(PartContent(e), 1, n)) :
        n \in 0..Len(PartContent(e))}

\* open(input_path, "rb") raises: the directory was made, nothing else
InputFail ==
    /\ pc = "idle"
    /\ ~(max_file_size_mb = None /\ max_objects_per_file = None)
    /\ dir_exists' = TRUE
    /\ pc' = "failed"
    /\ UNCHANGED <<config, other, disk, input_open, consumed, created_files, current_objects,
                   current_md_blocks, current_size, part_index, total_read, fin_lines,
                   result, returned, parts>>

\* the parser raises instead of yielding a record
ParserFail ==
    /\ pc = "streaming"
    /\ input_open' = FALSE
    /\ pc' = "failed"
    /\ UNCHANGED <<config, other, dir_exists, disk, consumed, created_files, current_objects,
                   current_md_blocks, current_size, part_index, total_read, fin_lines,
                   result, returned, parts>>

\* the engine as the loop body over obj has it when its i-th check is reached
BeforeCheck(e, obj, i) ==
    CASE i = 1 -> e
      [] i = 2 -> AfterSizeReached(e)
      [] i = 3 -> AfterWouldNotFit(AfterSizeReached(e), ObjSize(e, obj))

\* the engine after the i-th check of the loop body over obj
AfterCheck(e, obj, i) ==
    CASE i = 1 -> AfterSizeReached(e)
      [] i = 2 -> AfterWouldNotFit(AfterSizeReached(e), ObjSize(e, obj))
      [] i = 3 -> AfterCountReached(AfterWouldNotFit(AfterSizeReached(e), ObjSize(e, obj)))

\* the parser yields obj and a write_part of the loop body raises while it
\* writes its file
FlushFail(obj) ==
    /\ pc = "streaming"
    /\ Len(consumed) < MaxRecords
    /\ \E i \in 1..3 :
          LET e == BeforeCheck(Engine, obj, i)
          IN  /\ AfterCheck(Engine, obj, i) /= e
              /\ \E d \in PartialWrites(e) : SetEngine([e EXCEPT !.disk = d])
    /\ consumed' = Append(consumed, obj)
    /\ input_open' = FALSE
    /\ pc' = "failed"
    /\ UNCHANGED <<config, other, dir_exists, total_read, fin_lines, result, returned>>

\* the final write_part raises while it writes its file
FinalFlushFail ==
    /\ pc = "streaming"
    /\ current_objects /= <<>> \/ current_md_blocks /= <<>>
    /\ \E d \in PartialWrites(Engine) : disk' = d
    /\ input_open' = FALSE
    /\ pc' = "failed"
    /\ UNCHANGED <<config, other, dir_exists, consumed, created_files, current_objects,
                   current_md_blocks, current_size, part_index, total_read, fin_lines,
                   result, returned, parts>>

\* an open, a write or the os.replace of the rewrite raises: nothing is
\* removed, nothing is renamed
RewriteFail ==
    /\ pc \in {"finalizing", "copying"}
    /\ pc' = "failed"
    /\ UNCHANGED <<config, other, dir_exists, disk, input_open, consumed, created_files,
                   current_objects, current_md_blocks, current_size, part_index,
                   total_read, fin_lines, result, returned, parts>>

\* the process is killed between two steps
Crash ==
    /\ pc \in {"streaming", "finalizing", "copying"}
    /\ pc' = "crashed"
    /\ UNCHANGED <<config, other, dir_exists, disk, input_open, consumed, created_files,
                   current_objects, current_md_blocks, current_size, part_index,
                   total_read, fin_lines, result, returned, parts>>

NextFail ==
    \/ Next
    \/ InputFail
    \/ ParserFail
    \/ \E obj \in StreamRecords : FlushFail(obj)
    \/ FinalFlushFail
    \/ RewriteFail
    \/ Crash

\* the runs with failures start from fewer limits: none, the largest byte
\* limit and half of it, the largest count limit
InitFail ==
    /\ Init
    /\ max_file_size_mb \in
          {None, Some(MbResolution * MaxBytes), Some(MbResolution * (MaxBytes \div 2))}
    /\ max_objects_per_file \in {None, Some(MaxCount)}

SpecFail == InitFail /\ [][NextFail]_vars

(***************************************************************************)
(* obj_to_md over a range of records: a Markdown call that streams one     *)
(* record drawn from MdRecords.                                            *)
(***************************************************************************)
\* a key the record does not have
Absent == [t |-> "absent", v |-> <<>>]

\* the pair of a key the record has
Field(key, val) == IF val = Absent THEN <<>> ELSE << <<key, val>> >>

\* values of "date": none, empty, null, short, and an ISO date and time
DateArgs ==
    {Absent, VStr(<<>>), VNull, VStr(<<"2", "T", "1">>),
     VStr(<<"2", "0", "2", "4", "-", "0", "1", "-", "0", "2", "T",
            "0", "3", ":", "0", "4", ":", "0", "5">>)}

\* values of "from" and of "actor"
FromArgs == {Absent, VNull, VStr(<<"a">>)}
ActorArgs == {Absent, VStr(<<"b">>)}

\* values of "text": a string (empty, blank, with a leading "#", with runs of
\* whitespace at its ends and inside), null, an object, a list of both
TextArgs ==
    {Absent, VNull, VStr(<<>>), VStr(<<"\n", " ", "\n">>), VStr(<<"#", "\n", "c">>),
     VStr(<<" ", "x", " ", "\r", "\n", "y", "\t">>),
     VDict(<< <<K_text, VStr(<<"e", "\n">>)>> >>),
     VList(<<VStr(<<" ", "#">>), VDict(<< <<K_text, VStr(<<"d", "\n", "\n">>)>> >>)>>)}

\* values of "text_entities": a list of strings and objects
EntitiesArgs ==
    {Absent, VList(<<>>), VList(<<VStr(<<" ">>)>>),
     VList(<<VDict(<< <<K_text, VStr(<<"#">>)>> >>), VStr(<<"f", "\n">>)>>)}

MdRecords ==
    {VDict(Field(K_date, d) \o Field(K_from, f) \o Field(K_actor, a)
             \o Field(K_text, t) \o Field(K_text_entities, n)) :
        d \in DateArgs, f \in FromArgs, a \in ActorArgs, t \in TextArgs,
        n \in EntitiesArgs}

InitMd ==
    /\ Init
    /\ output_format = "md"
    /\ max_file_size_mb = None
    /\ max_objects_per_file = Some(MaxCount)
    /\ dir_exists

\* the parser yields the record and the loop body renders it
RenderRecord(obj) == consumed = <<>> /\ ProcessRecord(obj)

NextMd ==
    \/ Start
    \/ \E obj \in MdRecords : RenderRecord(obj)
    \/ EndOfStream
    \/ RewriteOpen
    \/ RewriteLine
    \/ RewriteReplace

SpecMd == InitMd /\ [][NextMd]_vars

(***************************************************************************)
(* A second call with the arguments and the input of the first, over the   *)
(* storage the first call left.                                            *)
(***************************************************************************)
\* the call that has returned, with the storage as it left it
Finished == [Suspended EXCEPT !.disk = disk]

\* the locals take the values a new call starts with
NewCall ==
    /\ pc' = "idle"
    /\ input_open' = FALSE
    /\ consumed' = <<>>
    /\ created_files' = <<>>
    /\ current_objects' = <<>>
    /\ current_md_blocks' = <<>>
    /\ current_size' = 0
    /\ part_index' = 1
    /\ total_read' = 0
    /\ fin_lines' = <<>>
    /\ result' = <<>>
    /\ returned' = FALSE
    /\ parts' = <<>>

\* split_json is called again with the same arguments
RunAgain ==
    /\ pc = "done"
    /\ other = NoInvocation
    /\ other' = Finished
    /\ NewCall
    /\ UNCHANGED <<config, dir_exists, disk>>

\* the first call reads its input
FirstRecord(obj) == other = NoInvocation /\ ProcessRecord(obj)
FirstEnd == other = NoInvocation /\ EndOfStream

\* the second call reads the same input: the same records, then the end
ReplayRecord ==
    /\ other.pc = "done"
    /\ Len(consumed) < Len(other.consumed)
    /\ ProcessRecord(other.consumed[Len(consumed) + 1])

ReplayEnd ==
    /\ other.pc = "done"
    /\ Len(consumed) = Len(other.consumed)
    /\ EndOfStream

InitRerun ==
    /\ InitFail
    /\ ~(max_file_size_mb = None /\ max_objects_per_file = None)
    /\ dir_exists = FALSE

NextRerun ==
    \/ Start
    \/ \E obj \in StreamRecords : FirstRecord(obj)
    \/ FirstEnd
    \/ RunAgain
    \/ ReplayRecord
    \/ ReplayEnd
    \/ RewriteOpen
    \/ RewriteLine
    \/ RewriteReplace

SpecRerun == InitRerun /\ [][NextRerun]_vars

(***************************************************************************)
(* Two calls on different inputs with different prefixes, in one output    *)
(* directory, their steps interleaved: the variables are the locals of the *)
(* call that takes the step, other holds the locals of the call that       *)
(* waits, and the storage is shared.                                       *)
(***************************************************************************)
\* the records of each input of the two calls
MaxPairRecords == 2

\* a call not yet started, with its prefix
IdleCall(prefix) == [NoInvocation EXCEPT !.pc = "idle", !.output_prefix = prefix]

\* the prefixes of the two calls
PrefixA == <<"a">>
PrefixB == <<"a", "_", "1">>

InitPair ==
    /\ pc = "idle"
    /\ output_format \in {"md", "json"}
    /\ output_prefix = PrefixA
    /\ max_file_size_mb = None
    /\ max_objects_per_file \in {Some(1), Some(MaxCount)}
    /\ dir_exists = FALSE
    /\ disk = <<>>
    /\ input_open = FALSE
    /\ consumed = <<>>
    /\ created_files = <<>>
    /\ current_objects = <<>>
    /\ current_md_blocks = <<>>
    /\ current_size = 0
    /\ part_index = 1
    /\ total_read = 0
    /\ fin_lines = <<>>
    /\ result = <<>>
    /\ returned = FALSE
    /\ parts = <<>>
    /\ other = IdleCall(PrefixB)

\* the parser of the call that runs yields obj
PairRecord(obj) == Len(consumed) < MaxPairRecords /\ ProcessRecord(obj)

\* the call that waits takes the next step: its locals become the variables,
\* the locals of the call that ran are kept in other; the storage is shared
Switch ==
    /\ other.pc /= "absent"
    /\ other' = Suspended
    /\ pc' = other.pc
    /\ output_prefix' = other.output_prefix
    /\ input_open' = other.input_open
    /\ consumed' = other.consumed
    /\ created_files' = other.created_files
    /\ current_objects' = other.current_objects
    /\ current_md_blocks' = other.current_md_blocks
    /\ current_size' = other.current_size
    /\ part_index' = other.part_index
    /\ total_read' = other.total_read
    /\ fin_lines' = other.fin_lines
    /\ result' = other.result
    /\ returned' = other.returned
    /\ parts' = other.parts
    /\ UNCHANGED <<output_format, max_file_size_mb, max_objects_per_file, dir_exists, disk>>

NextPair ==
    \/ Start
    \/ \E obj \in StreamRecords : PairRecord(obj)
    \/ EndOfStream
    \/ RewriteOpen
    \/ RewriteLine
    \/ RewriteReplace
    \/ Switch

SpecPair == InitPair /\ [][NextPair]_vars

(***************************************************************************)
(* main over two input files of the src directory: one call of split_json  *)
(* for each, in sorted order, on the same output directory.  other holds   *)
(* the call for the first file once it has returned.                       *)
(***************************************************************************)
\* the names of the two input files without their extension
InputStems == <<PrefixA, PrefixB>>

\* the value of --prefix when the option is given
ArgsPrefix == <<"o", "u", "t">>

\* prefix = args.prefix if args.prefix is not None else the stem of the input;
\* the option was given when the running call has its value as prefix
PrefixFor(i) == IF output_prefix = ArgsPrefix THEN ArgsPrefix ELSE InputStems[i]

\* main has checked the limits (neither is <= 0) and calls split_json for the
\* first input, with --prefix or without
InitMain ==
    /\ pc = "idle"
    /\ output_format \in {"md", "json"}
    /\ output_prefix \in {ArgsPrefix, InputStems[1]}
    /\ max_file_size_mb = None
    /\ max_objects_per_file \in {Some(1), Some(MaxCount)}
    /\ dir_exists = FALSE
    /\ disk = <<>>
    /\ input_open = FALSE
    /\ consumed = <<>>
    /\ created_files = <<>>
    /\ current_objects = <<>>
    /\ current_md_blocks = <<>>
    /\ current_size = 0
    /\ part_index = 1
    /\ total_read = 0
    /\ fin_lines = <<>>
    /\ result = <<>>
    /\ returned = FALSE
    /\ parts = <<>>
    /\ other = NoInvocation

\* all_created.extend(files), then split_json for the second input
MainNextInput ==
    /\ pc = "done"
    /\ other = NoInvocation
    /\ other' = Finished
    /\ output_prefix' = PrefixFor(2)
    /\ NewCall
    /\ UNCHANGED <<output_format, max_file_size_mb, max_objects_per_file, dir_exists, disk>>

\* all_created when the call at hand has returned
all_created == other.result \o result

NextMain ==
    \/ Start
    \/ \E obj \in StreamRecords : PairRecord(obj)
    \/ EndOfStream
    \/ RewriteOpen
    \/ RewriteLine
    \/ RewriteReplace
    \/ MainNextInput

SpecMain == InitMain /\ [][NextMain]_vars

(***************************************************************************)
(* Vocabulary of the properties.                                           *)
(***************************************************************************)
\* the byte limit in force
B == Val(max_size_bytes)

\* the count limit in force
C == Val(max_objects_per_file)

\* the rendered unit of a record: its Markdown block, or its compact JSON
RenderedUnit(obj) == IF output_format = "md" THEN obj_to_md(obj) ELSE JsonDumps(obj)

\* the bytes of a part made of the given units: Markdown blocks with "\n---\n"
\* between them, or JSON values between brackets with commas between them
Serialized(units) ==
    IF output_format = "md"
    THEN Join(units, <<"\n", "-", "-", "-", "\n">>)
    ELSE <<"[">> \o Join(units, <<",">>) \o <<"]">>

\* the file of part k is as write_part left it: the report rewrite has not
\* replaced it
AsFlushed(k) == k > 1 \/ output_format /= "md" \/ pc /= "done"

\* part k is one unit, itself larger than the byte limit
SingleOversized(k) == Len(parts[k]) = 1 /\ ByteLen(parts[k][1]) > B

\* the final flush is behind
Drained == pc \in {"finalizing", "copying", "done"}

\* C1: Markdown, byte limit B in force: every part file a flush has written
\* is at most B bytes, unless it is a single unit larger than B.
C1_MdFlushedPartWithinLimit ==
    (output_format = "md" /\ ByteLimitOn) =>
        \A k \in 1..Len(parts) :
            AsFlushed(k) =>
                \/ ByteLen(disk[created_files[k]]) <= B
                \/ SingleOversized(k)

\* C1 witness: both limits, two Markdown parts or more, one of them made of
\* several units that fill the limit exactly
C1_Witness ==
    /\ output_format = "md" /\ ByteLimitOn /\ CountLimitOn
    /\ Len(parts) >= 2
    /\ \E k \in 1..Len(parts) :
          Len(parts[k]) >= 2 /\ AsFlushed(k) /\ ByteLen(disk[created_files[k]]) = B

\* C2: JSON, byte limit B in force: every part file (the array with its
\* brackets and commas) is at most B bytes, unless it is a single record
\* larger than B.
C2_JsonPartFileWithinLimit ==
    (output_format = "json" /\ ByteLimitOn) =>
        \A k \in 1..Len(parts) :
            \/ ByteLen(disk[created_files[k]]) <= B
            \/ SingleOversized(k)

\* C3: Markdown, byte limit B in force, run Done: every part on disk, the
\* first with its report header, is at most B bytes, unless it is a single
\* unit larger than B.
C3_MdPartsOnDiskWithinLimitWhenDone ==
    (output_format = "md" /\ ByteLimitOn /\ pc = "done") =>
        \A k \in 1..Len(parts) :
            \/ ByteLen(disk[created_files[k]]) <= B
            \/ SingleOversized(k)

\* ceil(n / d)
CeilDiv(n, d) == (n + d - 1) \div d

\* C4: count limit C in force: no part and no buffer holds more than C
\* units; with no byte limit in force every part but the last holds exactly
\* C units and N records give ceil(N / C) parts.
C4_CountLimit ==
    CountLimitOn =>
        /\ \A k \in 1..Len(parts) : Len(parts[k]) <= C
        /\ NCurrent(Engine) <= C
        /\ ~ByteLimitOn =>
            /\ \A k \in 1..Len(parts) : (k < Len(parts) \/ ~Drained) => Len(parts[k]) = C
            /\ Drained => Len(parts) = CeilDiv(Len(consumed), C)

\* C4 witness: only the count limit, a finished run whose last part is short
C4_Witness ==
    /\ CountLimitOn /\ ~ByteLimitOn /\ pc = "done"
    /\ C >= 2
    /\ Len(parts) >= 2
    /\ Len(parts[Len(parts)]) < C

\* C5: the units of the parts, in catalog order, followed by the units still
\* buffered, are the rendered units of the records consumed, in order; after
\* the final flush nothing is buffered; and every part file as flushed holds
\* the units of its part.
C5_UnitsPreserved ==
    /\ Flatten(parts) \o BufferUnits(Engine)
         = [i \in 1..Len(consumed) |-> RenderedUnit(consumed[i])]
    /\ Drained => BufferUnits(Engine) = <<>>
    /\ Len(created_files) = Len(parts)
    /\ \A k \in 1..Len(parts) :
          AsFlushed(k) => disk[created_files[k]] = Serialized(parts[k])

\* C5 witness: a finished run of several parts whose last part came from the
\* final flush of a buffer of several units
C5_Witness ==
    /\ pc = "done"
    /\ Len(parts) >= 2
    /\ Len(consumed) = MaxRecords
    /\ Len(parts[Len(parts)]) >= 2
    /\ \E i, j \in 1..Len(consumed) : consumed[i] /= consumed[j]

\* the lines of the first part's file that are report lines
ReportLinesOfFirst ==
    LET ls == FileLines(disk[created_files[1]])
    IN  {i \in 1..Len(ls) : StartsWith(ls[i], ReportPrefix)}

RECURSIVE SumLen(_)
\* the number of units of a sequence of parts
SumLen(ps) == IF ps = <<>> THEN 0 ELSE Len(Head(ps)) + SumLen(Tail(ps))

\* C6: Markdown, at least one record, run Done: the first part's first line
\* is the report line, no other line of it is one, and the count it states
\* is the number of records consumed, the sum of the units of all parts.
C6_ReportLineStatesTotal ==
    (output_format = "md" /\ pc = "done" /\ consumed /= <<>>) =>
        /\ FileLines(disk[created_files[1]])[1]
             = ReportPrefix \o FormatThousands(Len(consumed)) \o <<"\n">>
        /\ ReportLinesOfFirst = {1}
        /\ SumLen(parts) = Len(consumed)

\* C6 witness: a finished Markdown run of three parts or more
C6_Witness ==
    /\ output_format = "md" /\ pc = "done"
    /\ Len(parts) >= 3
    /\ Len(parts[1]) < Len(consumed)

\* C7: byte limit B in force: a unit larger than B is alone in its part (and
\* alone in the buffer while it waits there), and its part file as flushed
\* holds it whole.
C7_OversizedUnitAlone ==
    ByteLimitOn =>
        /\ \A k \in 1..Len(parts) :
              (\E i \in 1..Len(parts[k]) : ByteLen(parts[k][i]) > B) =>
                  /\ Len(parts[k]) = 1
                  /\ AsFlushed(k) => disk[created_files[k]] = Serialized(<<parts[k][1]>>)
        /\ LET buf == BufferUnits(Engine)
           IN  (\E i \in 1..Len(buf) : ByteLen(buf[i]) > B) => Len(buf) = 1

\* C7 witness: both limits, an oversized unit between two units that fit
\* together with each other, each in a part of its own
C7_Witness ==
    /\ ByteLimitOn /\ CountLimitOn /\ pc = "done"
    /\ Len(parts) = 3 /\ Len(consumed) = 3
    /\ ByteLen(parts[2][1]) > B
    /\ ByteLen(Serialized(<<parts[1][1], parts[3][1]>>)) <= B
    /\ C >= 2


\* C8: with both limits absent the call ends in the configuration error
\* without any I/O: the step that raises it changes neither the directory
\* nor a file, and does not open or read the input.
C8_ConfigErrorBeforeAnyIO ==
    [][pc' = "config_error" =>
          /\ dir_exists' = dir_exists
          /\ disk' = disk
          /\ input_open' = input_open
          /\ consumed' = consumed]_vars

\* C9: a run that failed after k parts were flushed has returned nothing,
\* takes no further step, and its k parts are on disk with the content they
\* were flushed with.
C9_FailureKeepsFlushedParts ==
    pc = "failed" =>
        /\ ~returned
        /\ result = <<>>
        /\ ~ENABLED NextFail
        /\ Len(created_files) = Len(parts)
        /\ \A k \in 1..Len(parts) :
              /\ created_files[k] \in DOMAIN disk
              /\ disk[created_files[k]] = Serialized(parts[k])

\* C9 witness: the rewrite of a Markdown run has failed after several lines
\* were copied, two parts or more being flushed
C9_Witness ==
    /\ pc = "failed"
    /\ output_format = "md"
    /\ Len(parts) >= 2
    /\ tmp_path \in DOMAIN disk
    /\ Len(FileLines(disk[tmp_path])) >= 4

\* the first part as the finished rewrite leaves it: the report line, the
\* separator, and every line of the original that is not blank, stripped on
\* the right and ended by a newline
RewrittenFirst ==
    LET ls == FileLines(Serialized(parts[1]))
        kept == [i \in 1..Len(ls) |->
                    IF Strip(ls[i]) = <<>> THEN <<>> ELSE RStrip(ls[i]) \o <<"\n">>]
    IN  ReportPrefix \o FormatThousands(total_read) \o <<"\n", "-", "-", "-", "\n">>
        \o Flatten(kept)

\* the first part's file is whole: the original or the rewritten one
FirstPartWhole ==
    (output_format = "md" /\ parts /= <<>>) =>
        /\ created_files[1] \in DOMAIN disk
        /\ \/ disk[created_files[1]] = Serialized(parts[1])
           \/ disk[created_files[1]] = RewrittenFirst

\* the first part's file changes only by the rename of the finished
\* temporary file over it
FirstPartSwitchesByRename ==
    (output_format = "md" /\ parts /= <<>> /\ created_files[1] \in DOMAIN disk'
       /\ disk'[created_files[1]] /= disk[created_files[1]]) =>
        /\ pc = "copying" /\ fin_lines = <<>>
        /\ TmpPath(created_files[1]) \in DOMAIN disk
        /\ disk'[created_files[1]] = disk[TmpPath(created_files[1])]
        /\ pc' = "done"

\* C10: whatever step the rewrite has reached, also when the run crashed or
\* failed there, the first part's path holds its complete original content
\* or its complete rewritten content; the change from one to the other is
\* the single rename step.
C10_RewriteIsAtomic == []FirstPartWhole /\ [][FirstPartSwitchesByRename]_vars

\* C10 witness: a crash in the middle of the copy, the temporary file holding
\* a part of the rewritten content and the first part still the original
C10_Witness ==
    /\ pc = "crashed"
    /\ output_format = "md" /\ parts /= <<>>
    /\ fin_lines /= <<>>
    /\ tmp_path \in DOMAIN disk
    /\ Len(FileLines(disk[tmp_path])) >= 3
    /\ disk[first_path] = Serialized(parts[1])


\* C12: when the input array is empty, in either format and under any limits,
\* the call writes no part and no temporary file, keeps the catalog empty,
\* never starts the header rewrite, and returns the empty catalog.
C12_EmptyInputWritesNothing ==
    consumed = <<>> =>
        /\ pc \notin {"finalizing", "copying"}
        /\ disk = <<>>
        /\ created_files = <<>>
        /\ parts = <<>>
        /\ part_index = 1
        /\ fin_lines = <<>>
        /\ (pc = "done" => returned /\ result = <<>>)

C12_Witness ==
    /\ pc = "done"
    /\ consumed = <<>>
    /\ returned
    /\ output_format = "md"
    /\ ByteLimitOn
    /\ CountLimitOn


\* the catalog is the paths of the parts 1, 2, ... in order, one per part written
CatalogContiguous ==
    /\ Len(created_files) = part_index - 1
    /\ Len(created_files) = Len(parts)
    /\ \A k \in 1..Len(created_files) :
           created_files[k] =
               <<"d", "i", "s", "t", "/">> \o output_prefix \o <<"_">> \o Digits(k) \o ext

\* a step only appends to the catalog
CatalogAppendOnly ==
    /\ Len(created_files') >= Len(created_files)
    /\ SubSeq(created_files', 1, Len(created_files)) = created_files

\* C13: at every moment the catalog has exactly (next part index - 1) entries,
\* its k-th entry is the path named {prefix}_{k} with the extension of the
\* format, so the indices run from 1 without gap or repeat, and no step
\* removes, replaces or reorders an entry.
C13_CatalogContiguousAppendOnly == []CatalogContiguous /\ [][CatalogAppendOnly]_vars

C13_Witness ==
    /\ pc = "done"
    /\ Len(created_files) >= 3
    /\ part_index = Len(created_files) + 1
    /\ result = created_files


\* the order of the phases: streaming (with its flushes), then the final flush
\* that ends it, then the header rewrite when it is due, then done
PhaseOrder ==
    {<<"idle", "streaming">>, <<"idle", "config_error">>,
     <<"streaming", "streaming">>, <<"streaming", "finalizing">>,
     <<"streaming", "done">>, <<"finalizing", "copying">>,
     <<"copying", "copying">>, <<"copying", "done">>}

\* a step follows the order, and flushes nothing once the records are drained
PhaseStep ==
    /\ <<pc, pc'>> \in PhaseOrder
    /\ Drained =>
          /\ parts' = parts
          /\ created_files' = created_files
          /\ part_index' = part_index
          /\ consumed' = consumed

\* the header rewrite runs only in Markdown mode and only over a first part
RewriteOnlyWhenDue ==
    pc \in {"finalizing", "copying"} => output_format = "md" /\ created_files /= <<>>

\* C15: a run goes through its phases only in the order streaming, final flush,
\* header rewrite, done, and never back; no part is flushed once the header
\* rewrite has started; the rewrite is entered only from the end of streaming
\* (so at most once a run), only in Markdown mode and only when a part exists.
C15_PhasesInOrder == []RewriteOnlyWhenDue /\ [][PhaseStep]_vars

C15_Witness ==
    /\ pc = "done"
    /\ output_format = "md"
    /\ Len(parts) >= 2
    /\ disk[created_files[1]] /= Serialized(parts[1])
    /\ Len(parts[Len(parts)]) < Len(parts[1])


\* the units in the buffer
CurrentUnits == BufferUnits(Engine)

\* no part was written from an empty buffer
NoEmptyPart == \A k \in 1..Len(parts) : parts[k] /= <<>>

\* a step that consumes a record either appends its unit to the buffer and
\* flushes nothing, or flushes the whole buffer as it was before the record,
\* once, and starts the next buffer with the record's unit; the step that
\* ends the stream flushes the buffer once when it holds a unit
AtMostOneFlush ==
    /\ Len(parts') <= Len(parts) + 1
    /\ consumed' /= consumed =>
          LET unit == RenderedUnit(consumed'[Len(consumed')])
          IN  \/ /\ parts' = parts
                 /\ CurrentUnits' = Append(CurrentUnits, unit)
              \/ /\ parts' = Append(parts, CurrentUnits)
                 /\ CurrentUnits /= <<>>
                 /\ CurrentUnits' = <<unit>>
    /\ (consumed' = consumed /\ parts' /= parts) =>
          /\ parts' = Append(parts, CurrentUnits)
          /\ CurrentUnits /= <<>>
          /\ CurrentUnits' = <<>>

\* C17: processing one record flushes at most once, also when both limits are
\* set and both conditions hold for that record; the part flushed is the buffer
\* as it stood before the record, neither short nor long by a unit, and no
\* flush writes an empty part.
C17_OneFlushPerRecord == []NoEmptyPart /\ [][AtMostOneFlush]_vars

\* both limits are set, the buffer holds as many units as the count limit and
\* as many bytes as the byte limit, a flush has already happened and a record
\* is still to come
C17_Witness ==
    /\ pc = "streaming"
    /\ ByteLimitOn
    /\ CountLimitOn
    /\ C >= 2
    /\ Len(CurrentUnits) = C
    /\ current_size >= B
    /\ Len(parts) >= 1
    /\ Len(consumed) < MaxRecords


\* C18: in Markdown mode, after every append, the running size equals the bytes
\* the buffer would occupy if it were flushed now (its units with one separator
\* between adjacent units, zero exactly when the buffer is empty), in the
\* first part and in every later part alike.
C18_MdAccumulatorExact ==
    (output_format = "md" /\ pc = "streaming") =>
        /\ current_size = ByteLen(Serialized(current_md_blocks))
        /\ (current_size = 0 <=> current_md_blocks = <<>>)


\* C19: between records, the total-read counter equals the number of units in
\* all the parts flushed so far plus the number of units in the buffer, and so
\* the number of records consumed, whatever the number of parts.
C19_TotalReadCountsAllUnits ==
    /\ total_read = SumLen(parts) + Len(CurrentUnits)
    /\ total_read = Len(consumed)

\* units are both in several flushed parts and in the buffer
C19_Witness ==
    /\ pc = "streaming"
    /\ Len(parts) >= 2
    /\ Len(CurrentUnits) >= 1
    /\ total_read = MaxRecords
    /\ total_read > SumLen(parts)


\* no line of the content is blank
NoBlankLine(content) ==
    \A i \in 1..Len(FileLines(content)) : Strip(FileLines(content)[i]) /= <<>>

\* C20: the header rewrite changes the first part only by prepending: when the
\* flushed content of the first part has no blank line, the rewritten file is,
\* byte for byte, the report line, the separator, then the flushed content,
\* and every other part still holds what it was flushed with.
C20_RewriteOnlyPrepends ==
    (/\ output_format = "md"
     /\ pc = "done"
     /\ parts /= <<>>
     /\ NoBlankLine(Serialized(parts[1]))) =>
        /\ disk[created_files[1]] =
               ReportLine(total_read) \o sep \o Serialized(parts[1])
        /\ \A k \in 2..Len(parts) : disk[created_files[k]] = Serialized(parts[k])
        /\ DOMAIN disk = {created_files[k] : k \in 1..Len(created_files)}


\* the record has the key
HasKey(obj, key) == \E i \in 1..Len(obj.v) : obj.v[i][1] = key

\* block is the header line of obj and, only when the normalized text of obj
\* is not empty, one more line: not empty, no newline in it, no whitespace at
\* its ends, and "\#" first when the normalized text starts with "#"
WellFormedBlock(obj, block) ==
    LET head == <<"#", "#", "#", " ">> \o MdDate(obj) \o <<" ", "|", " ">> \o MdAuthor(obj)
        rest == SubSeq(block, Len(head) + 1, Len(block))
        body == Tail(rest)
    IN  /\ StartsWith(block, head)
        /\ IF MdText(obj) = <<>>
           THEN rest = <<>>
           ELSE /\ rest /= <<>>
                /\ Head(rest) = "\n"
                /\ body /= <<>>
                /\ \A i \in 1..Len(body) : body[i] \notin {"\n", "\r"}
                /\ body[1] \notin Whitespace
                /\ body[Len(body)] \notin Whitespace
                /\ MdText(obj)[1] = "#" =>
                       StartsWith(body, <<"\\", "#">>)
                /\ MdText(obj)[1] /= "#" => body = MdText(obj)
        /\ (~HasKey(obj, K_text) /\ ~HasKey(obj, K_text_entities)) => block = head

\* C16: obj_to_md gives the header line "### {date} | {author}" followed, only
\* when the normalized text is not empty, by exactly one body line that has no
\* newline and no leading or trailing whitespace and that starts with a
\* backslash and "#" whenever the normalized text starts with "#"; a record
\* with neither text nor text_entities gives the header line only.
C16_BlockIsHeaderAndOneLine ==
    \A i \in 1..Len(current_md_blocks) :
        WellFormedBlock(consumed[Len(consumed) - Len(current_md_blocks) + i],
                        current_md_blocks[i])

\* a block whose text came from text_entities, was changed by normalization,
\* starts with "#", under a date cut to DateLen characters
C16_Witness ==
    /\ Len(current_md_blocks) = 1
    /\ Len(consumed) = 1
    /\ ~Truthy(Get(consumed[1], K_text))
    /\ HasKey(consumed[1], K_text_entities)
    /\ MdText(consumed[1]) = <<"#", " ", "f">>
    /\ Len(MdDate(consumed[1])) = DateLen
    /\ Len(FileLines(current_md_blocks[1])) = 2


\* C11: a second run with the same input, limits, format, prefix and output
\* directory ends with the catalog of the first run and with the same files
\* holding the same bytes, and the first Markdown part carries one report
\* line, not two.
C11_SecondRunSameOutcome ==
    (pc = "done" /\ other.pc = "done") =>
        /\ consumed = other.consumed
        /\ result = other.result
        /\ disk = other.disk
        /\ (output_format = "md" /\ created_files /= <<>>) =>
               /\ ReportLinesOfFirst = {1}
               /\ disk[created_files[1]] = RewrittenFirst

\* the second Markdown run is over, it wrote several parts again, over the
\* files of the first run, the first of which carried the report
C11_Witness ==
    /\ pc = "done"
    /\ other.pc = "done"
    /\ output_format = "md"
    /\ Len(other.result) >= 2
    /\ Len(parts) = Len(other.parts)
    /\ other.disk[other.result[1]] = RewrittenFirst


\* the engine of a call that has done nothing yet, on an empty storage
FreshEngine ==
    [current_objects |-> <<>>, current_md_blocks |-> <<>>, current_size |-> 0,
     part_index |-> 1, created_files |-> <<>>, disk |-> <<>>, parts |-> <<>>]

RECURSIVE RunLoop(_, _)
\* the loop body over the records objs, one after the other, from engine e
RunLoop(e, objs) ==
    IF objs = <<>> THEN e ELSE RunLoop(LoopBody(e, Head(objs)), Tail(objs))

\* the engine after the loop over objs and the final flush, run alone
AloneEngine(objs) ==
    LET e == RunLoop(FreshEngine, objs)
    IN  IF NCurrent(e) /= 0 THEN WritePart(e) ELSE e

\* what the header rewrite makes of content when n records were read
RewrittenContent(content, n) ==
    LET ls == FileLines(content)
        kept == [i \in 1..Len(ls) |->
                    IF Strip(ls[i]) = <<>> THEN <<>> ELSE RStrip(ls[i]) \o <<"\n">>]
    IN  ReportLine(n) \o sep \o Flatten(kept)

\* the files a call on the records objs leaves when it runs alone
AloneDisk(objs) ==
    LET e == AloneEngine(objs)
    IN  IF ReportDue(e)
        THEN WriteFile(e.disk, e.created_files[1],
                       RewrittenContent(e.disk[e.created_files[1]], Len(objs)))
        ELSE e.disk

\* the paths the call that runs may write: its parts and its temporary file
OwnPaths ==
    {OutName(k) : k \in 1..(MaxRecords + 1)} \cup {TmpPath(OutName(1))}

\* a step of one call leaves alone the locals of the other call and every
\* file that is not its own; handing over to the other call changes no file
StepTouchesOwnOnly ==
    IF output_prefix' /= output_prefix
    THEN disk' = disk /\ other' = Suspended
    ELSE /\ other' = other
         /\ \A p \in (DOMAIN disk \cup DOMAIN disk') \ OwnPaths :
                p \in DOMAIN disk /\ p \in DOMAIN disk' /\ disk'[p] = disk[p]

\* once both calls have returned, the catalog and the files of the call at
\* hand are those of the same call run alone, and the rest of the storage
\* is the other call's
PairOutcomeAsAlone ==
    (pc = "done" /\ other.pc = "done") =>
        /\ result = AloneEngine(consumed).created_files
        /\ \A p \in DOMAIN AloneDisk(consumed) :
               p \in DOMAIN disk /\ disk[p] = AloneDisk(consumed)[p]
        /\ DOMAIN disk =
               DOMAIN AloneDisk(consumed)
                   \cup {other.result[k] : k \in 1..Len(other.result)}
        /\ \A k \in 1..Len(other.result) : other.result[k] \notin OwnPaths

\* C14: two calls on different inputs with different prefixes, interleaved at
\* will step by step, each end with the catalog and the files they have when
\* run alone; no step of one call reads or writes the buffer, counter or
\* catalog of the other, or a path of the other, temporary path included.
C14_InterleavedCallsIndependent == []PairOutcomeAsAlone /\ [][StepTouchesOwnOnly]_vars

\* both calls are in the middle of the header rewrite at once, each with its
\* own temporary file on the storage, after flushing several parts each from
\* different inputs
C14_Witness ==
    /\ pc = "copying"
    /\ other.pc = "copying"
    /\ fin_lines /= <<>>
    /\ other.fin_lines /= <<>>
    /\ Len(created_files) = MaxPairRecords
    /\ Len(other.created_files) = MaxPairRecords
    /\ consumed /= other.consumed
    /\ TmpPath(other.created_files[1]) \in DOMAIN disk
    /\ tmp_path \in DOMAIN disk


RECURSIVE SumBytes(_)
\* the bytes of the units of a part, without what joins them
SumBytes(units) ==
    IF units = <<>> THEN 0 ELSE ByteLen(Head(units)) + SumBytes(Tail(units))

\* C21: a call with a byte limit supplied (max_file_size_mb is not None) and
\* no count limit never returns from a run in which no limit was in force:
\* when it returns, a positive byte limit was in force and every part of more
\* than one unit holds units of at most that many bytes in all; this for a
\* supplied value of 0 and for a positive value below one byte as well
\* (stated of the runs that read more than one record).
C21_SuppliedByteLimitInForce ==
    (/\ pc = "done"
     /\ Len(consumed) > 1
     /\ max_file_size_mb /= None
     /\ max_objects_per_file = None) =>
        /\ max_size_bytes /= None
        /\ Val(max_size_bytes) > 0
        /\ \A k \in 1..Len(parts) :
               Len(parts[k]) > 1 => SumBytes(parts[k]) <= Val(max_size_bytes)

\* with a byte limit of one byte or more supplied, a limit is in force
WholeByteLimitInForce ==
    (/\ pc = "done"
     /\ max_file_size_mb /= None
     /\ Val(max_file_size_mb) >= MbResolution
     /\ max_objects_per_file = None) =>
        /\ max_size_bytes /= None
        /\ Val(max_size_bytes) > 0
        /\ \A k \in 1..Len(parts) :
               Len(parts[k]) > 1 => SumBytes(parts[k]) <= Val(max_size_bytes)


\* the paths in a list of created files
PathsOf(files) == {files[k] : k \in 1..Len(files)}

\* C22: when main has processed its input files, with --prefix or without,
\* the paths written for different inputs are disjoint: the parts of the
\* first input still hold what its call left, and the final list of created
\* files has no path twice.
C22_InputsWriteDisjointPaths ==
    (pc = "done" /\ other.pc = "done") =>
        /\ PathsOf(other.result) \cap PathsOf(result) = {}
        /\ \A p \in DOMAIN other.disk : p \in DOMAIN disk /\ disk[p] = other.disk[p]
        /\ \A i, j \in 1..Len(all_created) :
               all_created[i] = all_created[j] => i = j

\* without --prefix the same holds
DefaultPrefixesWriteDisjointPaths ==
    (pc = "done" /\ other.pc = "done" /\ output_prefix /= ArgsPrefix) =>
        /\ PathsOf(other.result) \cap PathsOf(result) = {}
        /\ \A p \in DOMAIN other.disk : p \in DOMAIN disk /\ disk[p] = other.disk[p]
        /\ \A i, j \in 1..Len(all_created) :
               all_created[i] = all_created[j] => i = j

=============================================================================
